---------------------------- MODULE Spec2Model ----------------------------
(***************************************************************************)
(* Per-user martingale trading state machine of the multi-exchange bot.    *)
(*                                                                         *)
(* Units.  Money (balances, margins) is counted in 1e-4 USDT, the          *)
(* precision to which the code rounds margins; contracts are counted in    *)
(* 1e-6 contracts, the precision of calculate_position_size; prices are    *)
(* whole USDT.  Python floats are modelled by the exact rationals they     *)
(* approximate: every round() is a round-half-even of the exact quotient.  *)
(* None / a failed gateway call is the value 0 for a price, the value 0    *)
(* for a balance and the value 0 for a position size, as in the adapter.   *)
(* Timestamps, names, credentials, message texts and the statistics that   *)
(* no decision reads (total_profit, starting_balance, the price and amount *)
(* of a closing record) are not modelled.                                  *)
(***************************************************************************)
EXTENDS Integers, Sequences, FiniteSets, TLC

(***************************************************************************)
(* Bounds of the model.                                                    *)
(***************************************************************************)
\* MARTINGALE_LEVELS is read from the environment and validated to lie in
\* [3, 20]; the model runs the smallest admissible configuration.
MARTINGALE_LEVELS == 3
\* No new cycle is opened once this many buy orders have been recorded.
MaxTrades == 2
\* The two-user trading loop is followed for this many iterations.
MaxIterations == 2

(***************************************************************************)
(* Program constants (config/settings.py).                                 *)
(***************************************************************************)
\* BALANCE_PERCENTAGE = 0.002, as parts per thousand
BALANCE_PERCENTAGE == 2
LEVERAGE == 25
\* TAKE_PROFIT_PCT = 0.56 percent = TAKE_PROFIT_NUM / TAKE_PROFIT_DEN of the entry
TAKE_PROFIT_NUM == 7
TAKE_PROFIT_DEN == 1250
\* MARTINGALE_MULTIPLIER = 1.35 = MULTIPLIER_NUM / MULTIPLIER_DEN
MULTIPLIER_NUM == 27
MULTIPLIER_DEN == 20
\* PRICE_DROP_TRIGGER = 1.1 percent = DROP_TRIGGER_NUM / DROP_TRIGGER_DEN of the reference
DROP_TRIGGER_NUM == 11
DROP_TRIGGER_DEN == 1000
\* MIN_BALANCE = 0.50 USDT
MIN_BALANCE == 5000
\* default_balance = 100.0 USDT of initialize_new_user
DEFAULT_BALANCE == 1000000

(***************************************************************************)
(* Values the exchange gateway can answer with.                            *)
(***************************************************************************)
\* get_balance: 0 (also the translation of a failed query) and 100 USDT
Balances == {0, 1000000}
\* get_price: last prices in USDT; NoPrice is None (query failed)
NoPrice == 0
Prices == {96, 98, 100}
PriceReads == Prices \cup {NoPrice}
ExchangeTypes == {"binance", "bybit"}

(***************************************************************************)
(* Arithmetic helpers.                                                     *)
(***************************************************************************)
Max(a, b) == IF a >= b THEN a ELSE b

Abs(a) == IF a >= 0 THEN a ELSE -a

RECURSIVE Pow(_, _)
Pow(b, e) == IF e = 0 THEN 1 ELSE b * Pow(b, e - 1)

\* Python round(n / d, k) on a non-negative quotient, in units of 10^-k:
\* round half to even.
RoundHalfEven(n, d) ==
    LET q == n \div d
        r == n % d
    IN  IF 2 * r > d THEN q + 1
        ELSE IF 2 * r < d THEN q
        ELSE IF q % 2 = 0 THEN q ELSE q + 1

\* least integer >= n / d, for n >= 0 and d > 0
CeilDiv(n, d) == (n + d - 1) \div d

\* sum(level['contracts'] for level in position_levels)
RECURSIVE SumContracts(_)
SumContracts(levels) ==
    IF levels = <<>> THEN 0 ELSE Head(levels).contracts + SumContracts(Tail(levels))

\* sum(level['price'] * level['contracts'] for level in position_levels)
RECURSIVE SumPriceContracts(_)
SumPriceContracts(levels) ==
    IF levels = <<>> THEN 0
    ELSE Head(levels).price * Head(levels).contracts + SumPriceContracts(Tail(levels))

\* sum(level['margin'] for level in position_levels)
RECURSIVE SumMargin(_)
SumMargin(levels) ==
    IF levels = <<>> THEN 0 ELSE Head(levels).margin + SumMargin(Tail(levels))

(***************************************************************************)
(* config/settings.py and utils/calculations.py: the sizing calculator.    *)
(***************************************************************************)
calculate_base_amount(balance) ==
    RoundHalfEven(balance * BALANCE_PERCENTAGE, 1000)

\* term i is round(base_amount * MARTINGALE_MULTIPLIER^i, 4)
get_martingale_sequence(base_amount) ==
    [i \in 1..MARTINGALE_LEVELS |->
        RoundHalfEven(base_amount * Pow(MULTIPLIER_NUM, i - 1), Pow(MULTIPLIER_DEN, i - 1))]

calculate_dynamic_martingale_sequence(balance) ==
    get_martingale_sequence(calculate_base_amount(balance))

\* round(margin * leverage / price, 6), in 1e-6 contracts; callers pass price > 0
calculate_position_size(margin_amount, leverage, price) ==
    RoundHalfEven(margin_amount * leverage * 100, price)

\* A call of calculate_position_size with any price: the division raises
\* ZeroDivisionError at price 0, and a negative price gives the negated size.
calculate_position_size_call(margin_amount, leverage, price) ==
    IF price = 0 THEN [raised |-> TRUE, value |-> 0]
    ELSE IF price < 0
    THEN [raised |-> FALSE,
          value |-> 0 - calculate_position_size(margin_amount, leverage, 0 - price)]
    ELSE [raised |-> FALSE,
          value |-> calculate_position_size(margin_amount, leverage, price)]

\* The weighted average entry is the rational num / den; den = 0 stands for None.
NoEntry == [num |-> 0, den |-> 0]

calculate_weighted_average_entry(position_levels) ==
    LET total_contracts == SumContracts(position_levels)
        weighted_sum == SumPriceContracts(position_levels)
    IN  IF position_levels = <<>> THEN NoEntry
        ELSE IF total_contracts <= 0 THEN NoEntry
        ELSE [num |-> weighted_sum, den |-> total_contracts]

\* (current - entry) / entry * 100 >= take_profit_pct in double precision,
\* with entry = num / den > 0.  The quotient is rounded to a double before
\* it is multiplied by 100 and compared with the double nearest to 0.56.
\* Away from the threshold the rounding changes nothing.  When the profit is
\* the threshold itself the quotient is 7/1250 whatever the prices, and
\* 7/1250 * 100 evaluates to 0.5599999999999999, below 0.56: the comparison
\* is false.
should_take_profit(current_price, weighted_avg_entry) ==
    IF weighted_avg_entry.den = 0 \/ weighted_avg_entry.num <= 0 THEN FALSE
    ELSE current_price * weighted_avg_entry.den - weighted_avg_entry.num
            > (TAKE_PROFIT_NUM * weighted_avg_entry.num) \div TAKE_PROFIT_DEN

\* (reference - current) / reference * 100 >= drop_trigger in double
\* precision.  When the drop is the trigger itself the quotient is 11/1000,
\* and 11/1000 * 100 evaluates to 1.0999999999999999, below 1.1: the
\* comparison is false.
should_add_martingale_level(current_price, reference_price) ==
    IF reference_price <= 0 THEN FALSE
    ELSE (reference_price - current_price) * DROP_TRIGGER_DEN
            > DROP_TRIGGER_NUM * reference_price

\* a validation that looks at the leverage before the margin
validate_trade_parameters_leverage_first(balance, margin_amount, leverage, price) == IF balance <= 0 THEN [is_valid |-> FALSE, error_msg |-> "Invalid balance"] ELSE IF leverage < 1 \/ leverage > 100 THEN [is_valid |-> FALSE, error_msg |-> "Invalid leverage"] ELSE IF margin_amount <= 0 THEN [is_valid |-> FALSE, error_msg |-> "Invalid margin amount"] ELSE IF margin_amount > balance THEN [is_valid |-> FALSE, error_msg |-> "Insufficient balance for margin"] ELSE IF price <= 0 THEN [is_valid |-> FALSE, error_msg |-> "Invalid price"] ELSE [is_valid |-> TRUE, error_msg |-> ""]

validate_trade_parameters(balance, margin_amount, leverage, price) ==
    IF balance <= 0 THEN [is_valid |-> FALSE, error_msg |-> "Invalid balance"]
    ELSE IF margin_amount <= 0 THEN [is_valid |-> FALSE, error_msg |-> "Invalid margin amount"]
    ELSE IF margin_amount > balance
        THEN [is_valid |-> FALSE, error_msg |-> "Insufficient balance for margin"]
    ELSE IF leverage < 1 \/ leverage > 100 THEN [is_valid |-> FALSE, error_msg |-> "Invalid leverage"]
    ELSE IF price <= 0 THEN [is_valid |-> FALSE, error_msg |-> "Invalid price"]
    ELSE [is_valid |-> TRUE, error_msg |-> ""]

(***************************************************************************)
(* core/exchanges.py: the exchange gateway adapter.  The exchange account  *)
(* is the number of contracts it holds for the symbol; every gateway       *)
(* query either answers or fails, and the adapter turns a failure into     *)
(* "no result".                                                            *)
(***************************************************************************)
\* Decimal quantize with ROUND_DOWN, which drops the digits beyond the step
quantize_down(amount, step) ==
    IF amount >= 0 THEN (amount \div step) * step
    ELSE 0 - (((0 - amount) \div step) * step)

\* a rounding to the nearest multiple of the step
round_amount_nearest(amount, exchange_type) == IF exchange_type = "binance" THEN amount ELSE IF exchange_type = "bybit" THEN ((amount + 50) \div 100) * 100 ELSE amount

\* 6 decimals on binance, 4 on bybit, round(amount, 6) for any other type;
\* amounts are in 1e-6 contracts
round_amount(amount, exchange_type) ==
    IF exchange_type = "binance" THEN quantize_down(amount, 1)
    ELSE IF exchange_type = "bybit" THEN quantize_down(amount, 100)
    ELSE amount

NoOrders == <<>>

\* The outcome of one place_market_order call: order is whether an order object
\* is returned, orders the requests handed to the exchange, contracts the open
\* position afterwards.  accepted is the exchange's answer to the request;
\* in_progress is the caller's trade_in_progress flag at the time of the call.
place_market_order(exchange_type, side, amount, reduce_only, accepted, in_progress, contracts) ==
    LET rounded == round_amount(amount, exchange_type)
        request == [side |-> side, amount |-> rounded, requested |-> amount,
                    reduce_only |-> reduce_only, in_progress |-> in_progress]
    IN  IF rounded <= 0
            THEN [order |-> FALSE, orders |-> NoOrders, contracts |-> contracts]
        ELSE IF exchange_type \notin ExchangeTypes
            THEN [order |-> FALSE, orders |-> NoOrders, contracts |-> contracts]
        ELSE IF ~accepted
            THEN [order |-> FALSE, orders |-> <<request>>, contracts |-> contracts]
        ELSE [order |-> TRUE, orders |-> <<request>>,
              contracts |-> IF side = "buy" THEN contracts + rounded
                            ELSE IF rounded >= contracts THEN 0
                            ELSE contracts - rounded]

\* The answers get_position_size can give: the open size, or 0.0 when the
\* position query fails.
get_position_size(contracts) == {contracts, 0}

(***************************************************************************)
(* core/user_manager.py: the user record.                                  *)
(***************************************************************************)
initialize_new_user ==
    [ authorized |-> FALSE,
      setup_complete |-> FALSE,
      exchange_selected |-> FALSE,
      exchange_type |-> "",
      exchange |-> FALSE,
      leverage |-> LEVERAGE,
      base_amount |-> calculate_base_amount(DEFAULT_BALANCE),
      martingale_sequence |-> calculate_dynamic_martingale_sequence(DEFAULT_BALANCE),
      current_step |-> 0,
      entry_price |-> NoPrice,
      position_side |-> "none",
      is_active |-> FALSE,
      safe_stop_requested |-> FALSE,
      trading_enabled |-> FALSE,
      start_button_pressed |-> FALSE,
      trade_in_progress |-> FALSE,
      position_levels |-> <<>>,
      martingale_trigger_prices |-> <<>>,
      cycle_count |-> 0,
      total_trades |-> 0,
      closed_trades |-> <<>>,
      current_balance |-> 0 ]

update_user_balance_strategy(r, balance) ==
    [r EXCEPT !.base_amount = calculate_base_amount(balance),
              !.martingale_sequence = calculate_dynamic_martingale_sequence(balance),
              !.current_balance = balance]

select_exchange(r, exchange_type) ==
    [r EXCEPT !.exchange_type = exchange_type, !.exchange_selected = TRUE]

\* What the user manager holds about a user: membership of authorized_users
\* and of users, whether a cleanup scan has put the user on its list of
\* inactive users, and whether a backup of the user's file has been made.
Unregistered ==
    [authorized_users |-> FALSE, users |-> FALSE,
     inactive_users |-> FALSE, backed_up |-> FALSE]

Registered == [Unregistered EXCEPT !.authorized_users = TRUE, !.users = TRUE]

is_authorized(m) == m.authorized_users

\* an authorization that does not look for the user in authorized_users
authorize_user_reinitializing(m, r, code_ok) == IF ~code_ok THEN [um |-> m, ud |-> r, ok |-> FALSE, saved |-> FALSE] ELSE [um |-> [m EXCEPT !.authorized_users = TRUE, !.users = TRUE], ud |-> [initialize_new_user EXCEPT !.authorized = TRUE], ok |-> TRUE, saved |-> TRUE]

\* code_ok: the code given is AUTHORIZATION_CODE
authorize_user(m, r, code_ok) ==
    IF ~code_ok
    THEN [um |-> m, ud |-> r, ok |-> FALSE, saved |-> FALSE]
    ELSE IF m.authorized_users
    THEN [um |-> m, ud |-> r, ok |-> TRUE, saved |-> FALSE]
    ELSE [um |-> [m EXCEPT !.authorized_users = TRUE, !.users = TRUE],
          ud |-> [initialize_new_user EXCEPT !.authorized = TRUE],
          ok |-> TRUE, saved |-> TRUE]

(***************************************************************************)
(* core/trading.py: the trading engine.  An engine operation applied to a  *)
(* record r and an exchange position is the set of its outcomes, one for   *)
(* each combination of answers of the gateway calls it makes.  An outcome  *)
(* is the record and the exchange position afterwards, the value returned  *)
(* and the order requests handed to the exchange.                          *)
(***************************************************************************)
Outcome(r, contracts, ok, orders) ==
    [ud |-> r, contracts |-> contracts, ok |-> ok, orders |-> orders]

\* a refresh that also starts the count of levels again
update_balance_strategy_restarting(r, current_balance) ==
    LET last_balance == r.current_balance
    IN  IF Abs(current_balance - last_balance) * 100 > Max(last_balance, 10000)
        THEN [r EXCEPT !.current_balance = current_balance,
                       !.base_amount = calculate_base_amount(current_balance),
                       !.martingale_sequence =
                            calculate_dynamic_martingale_sequence(current_balance),
                       !.current_step = 0,
                       !.martingale_trigger_prices = <<>>]
        ELSE r

\* a refresh that recomputes from a change of exactly 1% on
update_balance_strategy_at_least(r, current_balance) ==
    LET last_balance == r.current_balance
    IN  IF Abs(current_balance - last_balance) * 100 >= Max(last_balance, 10000)
        THEN [r EXCEPT !.current_balance = current_balance,
                       !.base_amount = calculate_base_amount(current_balance),
                       !.martingale_sequence =
                            calculate_dynamic_martingale_sequence(current_balance)]
        ELSE r

\* abs(current_balance - last_balance) / max(last_balance, 1) > 0.01
update_balance_strategy(r, current_balance) ==
    LET last_balance == r.current_balance
    IN  IF Abs(current_balance - last_balance) * 100 > Max(last_balance, 10000)
        THEN [r EXCEPT !.current_balance = current_balance,
                       !.base_amount = calculate_base_amount(current_balance),
                       !.martingale_sequence =
                            calculate_dynamic_martingale_sequence(current_balance)]
        ELSE r

\* a record_trade that keeps no history of closing trades
record_trade_openings_only(r, trade_type, price, amount) ==
    IF trade_type \in {"open_level_1", "martingale"}
    THEN [r EXCEPT !.total_trades = @ + 1]
    ELSE r

\* total_trades is incremented for opening trades; closing trades are appended
\* to closed_trades
record_trade(r, trade_type, price, amount) ==
    IF trade_type \in {"open_level_1", "martingale"}
    THEN [r EXCEPT !.total_trades = @ + 1]
    ELSE [r EXCEPT !.closed_trades =
            Append(@, [type |-> trade_type, cycle_number |-> r.cycle_count + 1])]

\* a start_new_cycle that leaves the guard flag set when it gives up
release_trade_kept(r) == r

\* user_data['trade_in_progress'] = False, on every way out of start_new_cycle
release_trade(r) == [r EXCEPT !.trade_in_progress = FALSE]

\* a position tracking that enters the first level twice
first_level_twice(current_price, margin_amount, position_size) == << [price |-> current_price, margin |-> margin_amount, contracts |-> position_size, level |-> 1], [price |-> current_price, margin |-> margin_amount, contracts |-> position_size, level |-> 1] >>

\* Initialize position tracking
first_level(current_price, margin_amount, position_size) ==
    << [price |-> current_price, margin |-> margin_amount,
        contracts |-> position_size, level |-> 1] >>

start_new_cycle(r, contracts) ==
    IF r.trade_in_progress \/ r.is_active
    THEN {Outcome(r, contracts, FALSE, NoOrders)}
    ELSE
    LET r1 == [r EXCEPT !.trade_in_progress = TRUE]
        released == release_trade(r1)
        leverage == r1.leverage
        margin_amount == r1.martingale_sequence[1]
    IN  UNION { UNION {
            IF current_price = NoPrice
            THEN {Outcome(released, contracts, FALSE, NoOrders)}
            ELSE UNION {
                IF balance < MIN_BALANCE
                THEN {Outcome(released, contracts, FALSE, NoOrders)}
                ELSE IF ~validate_trade_parameters(balance, margin_amount,
                                                   leverage, current_price).is_valid
                THEN {Outcome(released, contracts, FALSE, NoOrders)}
                ELSE
                LET position_size ==
                        calculate_position_size(margin_amount, leverage, current_price)
                IN  { LET placed == place_market_order(r1.exchange_type, "buy",
                                        position_size, FALSE, accepted,
                                        r1.trade_in_progress, contracts)
                      IN  IF placed.order
                          THEN Outcome(
                                release_trade(record_trade(
                                    [r1 EXCEPT
                                        !.current_step = 0,
                                        !.entry_price = current_price,
                                        !.position_side = "buy",
                                        !.is_active = TRUE,
                                        !.position_levels =
                                            first_level(current_price,
                                                        margin_amount,
                                                        position_size),
                                        !.martingale_trigger_prices = <<>>],
                                    "open_level_1", current_price, position_size)),
                                placed.contracts, TRUE, placed.orders)
                          ELSE Outcome(released, placed.contracts, FALSE, placed.orders)
                      : accepted \in BOOLEAN }
                : balance \in Balances }
            : current_price \in PriceReads }
          : leverage_set \in BOOLEAN }

check_take_profit(r, current_price) ==
    IF current_price = NoPrice THEN FALSE
    ELSE should_take_profit(current_price,
                            calculate_weighted_average_entry(r.position_levels))

\* a reference that stays the entry price of the cycle
entry_as_reference_price(r) == r.entry_price

\* Determine reference price
reference_price_of(r) ==
    LET trigger_prices == r.martingale_trigger_prices
    IN  IF r.current_step = 0 THEN r.entry_price
        ELSE IF trigger_prices # <<>>
             THEN trigger_prices[Len(trigger_prices)]
             ELSE r.entry_price

should_add_martingale(r, current_price) ==
    IF current_price = NoPrice THEN FALSE
    ELSE IF r.current_step >= Len(r.martingale_sequence) - 1 THEN FALSE
    ELSE IF reference_price_of(r) = NoPrice THEN FALSE
    ELSE should_add_martingale_level(current_price, reference_price_of(r))

\* an add_martingale_level that keeps the advanced step when it gives up
revert_step_forgotten(r) == r

\* user_data['current_step'] -= 1  # Revert step
revert_step(r) == [r EXCEPT !.current_step = @ - 1]

\* an add_martingale_level that records the trigger price before it knows
\* whether the order was placed
add_martingale_level_early_record(r, contracts) ==
    UNION {
        IF current_price = NoPrice
        THEN {Outcome(r, contracts, FALSE, NoOrders)}
        ELSE
        LET r1 == [r EXCEPT !.current_step = @ + 1,
                            !.martingale_trigger_prices = Append(@, current_price)]
            step == r1.current_step
            reverted == revert_step(r1)
        IN  IF step + 1 > Len(r1.martingale_sequence)
            THEN {Outcome([r1 EXCEPT !.current_step = Max(0, @ - 1)],
                          contracts, FALSE, NoOrders)}
            ELSE
            LET margin_amount == r1.martingale_sequence[step + 1]
                position_size ==
                    calculate_position_size(margin_amount, r1.leverage, current_price)
            IN  UNION {
                    IF balance < margin_amount
                    THEN {Outcome(reverted, contracts, FALSE, NoOrders)}
                    ELSE
                    { LET placed == place_market_order(r1.exchange_type, "buy",
                                        position_size, FALSE, accepted,
                                        r1.trade_in_progress, contracts)
                      IN  IF placed.order
                          THEN Outcome(
                                record_trade(
                                    [r1 EXCEPT
                                        !.position_levels =
                                            Append(@, [price |-> current_price,
                                                       margin |-> margin_amount,
                                                       contracts |-> position_size,
                                                       level |-> step + 1])],
                                    "martingale", current_price, position_size),
                                placed.contracts, TRUE, placed.orders)
                          ELSE Outcome(reverted, placed.contracts, FALSE, placed.orders)
                      : accepted \in BOOLEAN }
                    : balance \in Balances }
        : current_price \in PriceReads }

\* a level sized by the term of the step just left
level_margin_previous(r, step) == r.martingale_sequence[step]

\* margin_amount = user_data['martingale_sequence'][step]
level_margin(r, step) == r.martingale_sequence[step + 1]

add_martingale_level(r, contracts) ==
    UNION {
        IF current_price = NoPrice
        THEN {Outcome(r, contracts, FALSE, NoOrders)}
        ELSE
        LET r1 == [r EXCEPT !.current_step = @ + 1]
            step == r1.current_step
            reverted == revert_step(r1)
        IN  IF step + 1 > Len(r1.martingale_sequence)
            \* IndexError: the handler of the exception steps back
            THEN {Outcome([r1 EXCEPT !.current_step = Max(0, @ - 1)],
                          contracts, FALSE, NoOrders)}
            ELSE
            LET margin_amount == level_margin(r1, step)
                position_size ==
                    calculate_position_size(margin_amount, r1.leverage, current_price)
            IN  UNION {
                    IF balance < margin_amount
                    THEN {Outcome(reverted, contracts, FALSE, NoOrders)}
                    ELSE
                    { LET placed == place_market_order(r1.exchange_type, "buy",
                                        position_size, FALSE, accepted,
                                        r1.trade_in_progress, contracts)
                      IN  IF placed.order
                          THEN Outcome(
                                record_trade(
                                    [r1 EXCEPT
                                        !.martingale_trigger_prices =
                                            Append(@, current_price),
                                        !.position_levels =
                                            Append(@, [price |-> current_price,
                                                       margin |-> margin_amount,
                                                       contracts |-> position_size,
                                                       level |-> step + 1])],
                                    "martingale", current_price, position_size),
                                placed.contracts, TRUE, placed.orders)
                          ELSE Outcome(reverted, placed.contracts, FALSE, placed.orders)
                      : accepted \in BOOLEAN }
                    : balance \in Balances }
        : current_price \in PriceReads }

\* a close that trusts the locally tracked levels for the size to sell
close_amount_local(r, actual_position_size) == SumContracts(r.position_levels)

\* the amount close_position asks the gateway to sell: the size the exchange
\* reported
close_amount(r, actual_position_size) == actual_position_size

\* a close that takes "no position on the exchange" as the end of the cycle
no_position_found_reset(r) ==
    [r EXCEPT !.is_active = FALSE, !.entry_price = NoPrice, !.current_step = 0,
              !.position_levels = <<>>, !.martingale_trigger_prices = <<>>]

\* the record close_position leaves when the exchange reports no open
\* position: it logs a warning and returns False
no_position_found(r) == r

\* a close that keeps the trigger prices of the cycle it ends
reset_cycle_keeping_triggers(r) == [r EXCEPT !.is_active = FALSE, !.entry_price = NoPrice, !.current_step = 0, !.position_levels = <<>>]

\* Reset for new cycle
reset_cycle(r) ==
    [r EXCEPT !.is_active = FALSE,
              !.entry_price = NoPrice,
              !.current_step = 0,
              !.position_levels = <<>>,
              !.martingale_trigger_prices = <<>>]

\* close_position with the answers of its gateway calls: the position size
\* reported, the price read, and whether the exchange accepts the order
close_position_answered(r, contracts, actual_position_size, current_price, accepted) ==
    IF actual_position_size <= 0
    THEN Outcome(no_position_found(r), contracts, FALSE, NoOrders)
    ELSE IF current_price = NoPrice
    THEN Outcome(r, contracts, FALSE, NoOrders)
    ELSE
    LET placed == place_market_order(r.exchange_type, "sell",
                        close_amount(r, actual_position_size), TRUE, accepted,
                        r.trade_in_progress, contracts)
    IN  IF placed.order
        THEN Outcome(
                reset_cycle(
                    [record_trade(r, "close_all_tp", current_price,
                                  close_amount(r, actual_position_size))
                     EXCEPT !.cycle_count = @ + 1]),
                placed.contracts, TRUE, placed.orders)
        ELSE Outcome(r, placed.contracts, FALSE, placed.orders)

close_position(r, contracts) ==
    { close_position_answered(r, contracts, actual_position_size,
                              current_price, accepted) :
        actual_position_size \in get_position_size(contracts),
        current_price \in PriceReads, accepted \in BOOLEAN }

emergency_close_position(r, contracts) ==
    UNION {
        IF actual_position_size <= 0
        THEN {Outcome(r, contracts, TRUE, NoOrders)}
        ELSE
        { LET placed == place_market_order(r.exchange_type, "sell",
                            actual_position_size, TRUE, accepted,
                            r.trade_in_progress, contracts)
          IN  IF placed.order
              THEN Outcome([r EXCEPT !.is_active = FALSE,
                                     !.trading_enabled = FALSE,
                                     !.entry_price = NoPrice,
                                     !.current_step = 0,
                                     !.position_levels = <<>>,
                                     !.martingale_trigger_prices = <<>>],
                           placed.contracts, TRUE, placed.orders)
              ELSE Outcome(r, placed.contracts, FALSE, placed.orders)
          : accepted \in BOOLEAN }
        : actual_position_size \in get_position_size(contracts) }

\* The outcome of a processing pass or of a handler: the outcome of the engine
\* operation it called, the name of that operation ("skip" when a pass returned
\* before any gateway call, "none" when no operation was called) and whether
\* take-profit was evaluated.
\* the conditions under which a processing pass is to skip the user
SkipCondition(r) ==
    \/ ~r.setup_complete
    \/ ~r.trading_enabled
    \/ (r.safe_stop_requested /\ ~r.is_active)

PassOutcome(o, call, tp_checked) ==
    [ud |-> o.ud, contracts |-> o.contracts, ok |-> o.ok, orders |-> o.orders,
     call |-> call, tp_checked |-> tp_checked]

\* a pass that goes on to the martingale check when the close has failed
take_profit_triggered_then_add(r1, contracts) ==
    UNION { IF o.ok
            THEN {PassOutcome(o, "close_position", TRUE)}
            ELSE {PassOutcome([a EXCEPT !.orders = o.orders \o a.orders],
                              "close_position", TRUE) :
                    a \in add_martingale_level(o.ud, o.contracts)}
            : o \in close_position(r1, contracts) }

\* Take profit triggered: the pass returns what close_position returns
take_profit_triggered(r1, contracts) ==
    {PassOutcome(o, "close_position", TRUE) : o \in close_position(r1, contracts)}

\* a pass that looks at the position only, not at the control flags
process_user_trading_unguarded(r, contracts) ==
    IF ~r.setup_complete
    THEN {PassOutcome(Outcome(r, contracts, TRUE, NoOrders), "skip", FALSE)}
    ELSE IF ~r.exchange
    THEN {PassOutcome(Outcome(r, contracts, FALSE, NoOrders), "skip", FALSE)}
    ELSE UNION {
        LET r1 == update_balance_strategy(r, current_balance)
        IN  IF ~r1.is_active /\ ~r1.trade_in_progress
            THEN {PassOutcome(o, "start_new_cycle", FALSE) :
                    o \in start_new_cycle(r1, contracts)}
            ELSE IF r1.is_active
            THEN UNION {
                IF check_take_profit(r1, tp_price)
                THEN take_profit_triggered(r1, contracts)
                ELSE UNION {
                    IF should_add_martingale(r1, add_price)
                    THEN {PassOutcome(o, "add_martingale_level", TRUE) :
                            o \in add_martingale_level(r1, contracts)}
                    ELSE {PassOutcome(Outcome(r1, contracts, TRUE, NoOrders),
                                      "none", TRUE)}
                    : add_price \in PriceReads }
                : tp_price \in PriceReads }
            ELSE {PassOutcome(Outcome(r1, contracts, TRUE, NoOrders), "none", FALSE)}
        : current_balance \in Balances }

process_user_trading(r, contracts) ==
    IF ~r.setup_complete \/ ~r.trading_enabled
    THEN {PassOutcome(Outcome(r, contracts, TRUE, NoOrders), "skip", FALSE)}
    ELSE IF r.safe_stop_requested /\ ~r.is_active
    THEN {PassOutcome(Outcome(r, contracts, TRUE, NoOrders), "skip", FALSE)}
    ELSE IF ~r.exchange
    THEN {PassOutcome(Outcome(r, contracts, FALSE, NoOrders), "skip", FALSE)}
    ELSE UNION {
        LET r1 == update_balance_strategy(r, current_balance)
        IN  IF ~r1.is_active /\ ~r1.safe_stop_requested /\ ~r1.trade_in_progress
            THEN {PassOutcome(o, "start_new_cycle", FALSE) :
                    o \in start_new_cycle(r1, contracts)}
            ELSE IF r1.is_active
            THEN UNION {
                IF check_take_profit(r1, tp_price)
                THEN take_profit_triggered(r1, contracts)
                ELSE UNION {
                    IF should_add_martingale(r1, add_price)
                    THEN {PassOutcome(o, "add_martingale_level", TRUE) :
                            o \in add_martingale_level(r1, contracts)}
                    ELSE {PassOutcome(Outcome(r1, contracts, TRUE, NoOrders),
                                      "none", TRUE)}
                    : add_price \in PriceReads }
                : tp_price \in PriceReads }
            ELSE {PassOutcome(Outcome(r1, contracts, TRUE, NoOrders), "none", FALSE)}
        : current_balance \in Balances }

(***************************************************************************)
(* telegram/handlers.py: the handlers of the intake loop that write the    *)
(* record.  Each is the set of its outcomes.                               *)
(***************************************************************************)
_handle_exchange_selection(r, contracts) ==
    { PassOutcome(Outcome(select_exchange(r, exchange_type), contracts, TRUE, NoOrders),
                  "select_exchange", FALSE)
      : exchange_type \in ExchangeTypes }

\* create_exchange_instance succeeds or fails; on success the balance is read
\* and the strategy recomputed from it
_handle_api_setup(r, contracts) ==
    IF ~r.exchange_selected
    THEN {PassOutcome(Outcome(r, contracts, FALSE, NoOrders), "none", FALSE)}
    ELSE UNION {
        IF ~success
        THEN {PassOutcome(Outcome(r, contracts, FALSE, NoOrders), "none", FALSE)}
        ELSE { PassOutcome(
                 Outcome(update_user_balance_strategy(
                            [r EXCEPT !.exchange = TRUE, !.setup_complete = TRUE],
                            balance),
                         contracts, TRUE, NoOrders),
                 "update_user_balance_strategy", FALSE)
               : balance \in Balances }
        : success \in BOOLEAN }

\* validate_user_for_trading: setup complete, exchange connected, balance at
\* least MIN_BALANCE, symbol valid
validate_user_for_trading(r, balance, symbol_valid) ==
    IF ~r.setup_complete THEN FALSE
    ELSE IF ~r.exchange THEN FALSE
    ELSE IF balance < MIN_BALANCE THEN FALSE
    ELSE symbol_valid

_handle_start_trading(r, contracts) ==
    IF ~r.setup_complete
    THEN {PassOutcome(Outcome(r, contracts, FALSE, NoOrders), "none", FALSE)}
    ELSE { IF ~validate_user_for_trading(r, balance, symbol_valid)
           THEN PassOutcome(Outcome(r, contracts, FALSE, NoOrders), "none", FALSE)
           ELSE PassOutcome(
                    Outcome([r EXCEPT !.trading_enabled = TRUE,
                                      !.start_button_pressed = TRUE,
                                      !.safe_stop_requested = FALSE],
                            contracts, TRUE, NoOrders),
                    "none", FALSE)
           : balance \in Balances, symbol_valid \in BOOLEAN }

_handle_safe_stop(r, contracts) ==
    { PassOutcome(Outcome([r EXCEPT !.safe_stop_requested = TRUE,
                                    !.trading_enabled = FALSE],
                          contracts, TRUE, NoOrders),
                  "none", FALSE) }

_handle_emergency(r, contracts) ==
    IF r.is_active
    THEN {PassOutcome(o, "emergency_close_position", FALSE) :
            o \in emergency_close_position(r, contracts)}
    ELSE {PassOutcome(Outcome([r EXCEPT !.trading_enabled = FALSE],
                              contracts, TRUE, NoOrders),
                      "none", FALSE)}

(***************************************************************************)
(* core/bot.py: the loops.  The state is one user's record in the          *)
(* registry, the position the exchange holds for the user's symbol, and    *)
(* ev, the account of the last handler that ran: its name, the engine      *)
(* operation it called, the value returned, the order requests it made,    *)
(* whether take-profit was evaluated and whether it ended by saving the    *)
(* record.  user_manager is what the user manager holds about the user.    *)
(* Before the user is authorized the registry has no record: user_data is  *)
(* then the record that authorization will create.  peer_data and          *)
(* peer_contracts are the record and the exchange position of a second     *)
(* user, and loop_user is the user the trading loop processes next.        *)
(***************************************************************************)
VARIABLES user_data, exch_contracts, ev, user_manager,
          peer_data, peer_contracts, loop_user

vars == <<user_data, exch_contracts, ev, user_manager,
          peer_data, peer_contracts, loop_user>>

peer == <<peer_data, peer_contracts, loop_user>>

\* unsaved: a processing pass has changed the record and no save of the
\* record has been attempted since
Event(op, o, saved) ==
    [op |-> op, call |-> o.call, ok |-> o.ok, orders |-> o.orders,
     tp_checked |-> o.tp_checked, saved |-> saved, unsaved |-> FALSE]

\* the unsaved mark after a handler that left the record r
Unsaved(op, r, saved) ==
    /\ ~saved
    /\ \/ ev.unsaved
       \/ (op = "process_user_trading" /\ r # user_data)

\* the loop that runs a handler
ThreadOf(op) ==
    IF op = "process_user_trading" THEN "trading"
    ELSE IF op = "init" THEN "main"
    ELSE "intake"

Init ==
    /\ user_data = initialize_new_user
    /\ exch_contracts = 0
    /\ ev = Event("init",
                  PassOutcome(Outcome(initialize_new_user, 0, TRUE, NoOrders),
                              "none", FALSE),
                  FALSE)
    /\ user_manager = Unregistered
    /\ peer_data = initialize_new_user
    /\ peer_contracts = 0
    /\ loop_user = "A"

Commit(op, o, saved) ==
    /\ user_data' = o.ud
    /\ exch_contracts' = o.contracts
    /\ ev' = [Event(op, o, saved) EXCEPT !.unsaved = Unsaved(op, o.ud, saved)]
    /\ UNCHANGED <<user_manager, peer>>

\* /authorize with a code, from a user authorized or not; the call is
\* labelled auth_failed when the code is not the authorization code
HandleAuthorization ==
    \E code_ok \in BOOLEAN :
        LET a == authorize_user(user_manager, user_data, code_ok)
        IN  /\ user_manager' = a.um
            /\ user_data' = a.ud
            /\ ev' = [Event("_handle_authorization",
                            PassOutcome(Outcome(a.ud, exch_contracts, a.ok,
                                                NoOrders),
                                        IF code_ok THEN "authorize_user"
                                                   ELSE "auth_failed",
                                        FALSE),
                            a.saved)
                        EXCEPT !.unsaved =
                            Unsaved("_handle_authorization", a.ud, a.saved)]
            /\ UNCHANGED <<exch_contracts, peer>>

\* one iteration of trading_loop for the user: the pass, and a save when the
\* pass reports success
TradingPass ==
    /\ user_manager.authorized_users /\ user_manager.users
    /\ user_data.is_active \/ user_data.total_trades < MaxTrades
    /\ \E o \in process_user_trading(user_data, exch_contracts) :
            Commit("process_user_trading", o, o.ok)

\* The exchange buttons are routed by their text, whatever the state of the
\* record: an exchange can be selected again after setup and during a cycle.
HandleExchangeSelection ==
    /\ is_authorized(user_manager)
    /\ \E o \in _handle_exchange_selection(user_data, exch_contracts) :
            Commit("_handle_exchange_selection", o, TRUE)

HandleApiSetup ==
    /\ is_authorized(user_manager)
    /\ \E o \in _handle_api_setup(user_data, exch_contracts) :
            Commit("_handle_api_setup", o, o.ok)

HandleStartTrading ==
    /\ is_authorized(user_manager)
    /\ \E o \in _handle_start_trading(user_data, exch_contracts) :
            Commit("_handle_start_trading", o, o.ok)

HandleSafeStop ==
    /\ is_authorized(user_manager)
    /\ \E o \in _handle_safe_stop(user_data, exch_contracts) :
            Commit("_handle_safe_stop", o, TRUE)

HandleEmergency ==
    /\ is_authorized(user_manager)
    /\ \E o \in _handle_emergency(user_data, exch_contracts) :
            Commit("_handle_emergency", o, TRUE)

Next ==
    \/ HandleAuthorization
    \/ TradingPass
    \/ HandleExchangeSelection
    \/ HandleApiSetup
    \/ HandleStartTrading
    \/ HandleSafeStop
    \/ HandleEmergency

Spec == Init /\ [][Next]_vars

(***************************************************************************)
(* The balance refresh on its own.  The record is the one of a user who    *)
(* has connected an exchange and started trading; every step is the        *)
(* balance-refresh step of a processing pass (update_balance_strategy)     *)
(* with a balance drawn from RefreshBalances.  Here ev is the name of the  *)
(* step and the balance the gateway answered.                              *)
(***************************************************************************)
\* balances in 1e-4 USDT: 0 (also a failed query); 0.005, 0.008 and 0.03, so
\* small that rounded terms coincide; 0.5, 0.5005, 0.505, 0.506 and 0.5101
\* around the threshold below 1 USDT; 98.99, 99, 99.5, 100, 100.5, 100.99, 101
\* and 101.01 around 1% of 100
RefreshBalances ==
    {0, 50, 80, 300, 5000, 5005, 5050, 5060, 5101,
     989900, 990000, 995000, 1000000, 1005000, 1009900, 1010000, 1010100}

ConnectedUser(exchange_type, balance) ==
    update_user_balance_strategy(
        [select_exchange(initialize_new_user, exchange_type)
            EXCEPT !.authorized = TRUE,
                   !.exchange = TRUE, !.setup_complete = TRUE,
                   !.trading_enabled = TRUE, !.start_button_pressed = TRUE],
        balance)

InitRefresh ==
    /\ \E exchange_type \in ExchangeTypes, balance \in RefreshBalances :
            /\ user_data = ConnectedUser(exchange_type, balance)
            /\ ev = [op |-> "_handle_api_setup", balance |-> balance]
    /\ exch_contracts = 0
    /\ user_manager = Registered
    /\ peer_data = initialize_new_user
    /\ peer_contracts = 0
    /\ loop_user = "A"

RefreshBalance ==
    \E current_balance \in RefreshBalances :
        /\ user_data' = update_balance_strategy(user_data, current_balance)
        /\ ev' = [op |-> "update_balance_strategy", balance |-> current_balance]
        /\ UNCHANGED <<exch_contracts, user_manager, peer>>

NextRefresh == RefreshBalance

SpecRefresh == InitRefresh /\ [][NextRefresh]_vars

(***************************************************************************)
(* The trading loop over two users.  Both have connected an exchange and   *)
(* started trading.  An iteration of trading_loop processes user A, then   *)
(* user B; each has a record and a position of their own on the exchange.  *)
(* A pass returns True or False, or an exception leaves it: the pass       *)
(* catches what its body raises, so an exception can only leave from the   *)
(* handler of a failed pass.  Here ev names the user of the last pass,     *)
(* what the loop saw of it, and whether the pass before it in the same     *)
(* iteration failed.                                                       *)
(***************************************************************************)
\* the loop without the try around a user's pass: an exception ends the iteration
next_user_unprotected(user, raised) == IF raised THEN "A" ELSE IF user = "A" THEN "B" ELSE "A"

\* the user the loop processes after `user`
next_user(user, raised) == IF user = "A" THEN "B" ELSE "A"

\* what the loop sees of a pass: the value returned, or an exception
LoopOutcomes(r, contracts) ==
    UNION { {[ud |-> o.ud, contracts |-> o.contracts, ok |-> o.ok,
              raised |-> FALSE]}
            \cup (IF o.ok THEN {}
                  ELSE {[ud |-> o.ud, contracts |-> o.contracts,
                         ok |-> FALSE, raised |-> TRUE]}) :
            o \in process_user_trading(r, contracts) }

LoopEvent(user, x, prev_failed, iteration) ==
    [op |-> "trading_loop", user |-> user, ok |-> x.ok, raised |-> x.raised,
     prev_failed |-> prev_failed, iteration |-> iteration]

InitLoop ==
    /\ \E exchange_type \in ExchangeTypes, balance \in Balances :
            user_data = ConnectedUser(exchange_type, balance)
    /\ \E exchange_type \in ExchangeTypes, balance \in Balances :
            peer_data = ConnectedUser(exchange_type, balance)
    /\ exch_contracts = 0
    /\ peer_contracts = 0
    /\ user_manager = Registered
    /\ loop_user = "A"
    /\ ev = [op |-> "trading_loop", user |-> "none", ok |-> TRUE,
             raised |-> FALSE, prev_failed |-> FALSE, iteration |-> 0]

\* the pass for the first user of an iteration
LoopPassA ==
    /\ loop_user = "A"
    /\ ev.iteration < MaxIterations
    /\ \E x \in LoopOutcomes(user_data, exch_contracts) :
            /\ user_data' = x.ud
            /\ exch_contracts' = x.contracts
            /\ loop_user' = next_user("A", x.raised)
            /\ ev' = LoopEvent("A", x, FALSE, ev.iteration + 1)
    /\ UNCHANGED <<peer_data, peer_contracts, user_manager>>

\* the pass for the second user
LoopPassB ==
    /\ loop_user = "B"
    /\ \E x \in LoopOutcomes(peer_data, peer_contracts) :
            /\ peer_data' = x.ud
            /\ peer_contracts' = x.contracts
            /\ loop_user' = next_user("B", x.raised)
            /\ ev' = LoopEvent("B", x, ev.user = "A" /\ ~ev.ok, ev.iteration)
    /\ UNCHANGED <<user_data, exch_contracts, user_manager>>

NextLoop ==
    \/ LoopPassA
    \/ LoopPassB

SpecLoop == InitLoop /\ [][NextLoop]_vars

(***************************************************************************)
(* cleanup_inactive_users beside the trading loop.  The user has connected *)
(* an exchange and started trading.  The cleanup first scans the records   *)
(* and lists the users to remove, then backs up and removes every listed   *)
(* user; the trading loop is another thread, and its passes run before,    *)
(* between and after the two phases.                                       *)
(***************************************************************************)
\* the scan: stale says that last_active is older than the cutoff
cleanup_scan(m, r, stale) ==
    IF stale /\ ~r.is_active THEN [m EXCEPT !.inactive_users = TRUE] ELSE m

\* the removal of a listed user: backup_user_data answers backup_ok, which
\* the cleanup does not look at
cleanup_remove(m, backup_ok) ==
    [m EXCEPT !.backed_up = backup_ok, !.users = FALSE,
              !.authorized_users = FALSE, !.inactive_users = FALSE]

CleanupEvent(call) ==
    [Event("cleanup_inactive_users",
           PassOutcome(Outcome(user_data, exch_contracts, TRUE, NoOrders),
                       call, FALSE),
           FALSE)
        EXCEPT !.unsaved = ev.unsaved]

InitCleanup ==
    /\ \E exchange_type \in ExchangeTypes, balance \in Balances :
            user_data = ConnectedUser(exchange_type, balance)
    /\ exch_contracts = 0
    /\ user_manager = Registered
    /\ ev = Event("init",
                  PassOutcome(Outcome(initialize_new_user, 0, TRUE, NoOrders),
                              "none", FALSE),
                  FALSE)
    /\ peer_data = initialize_new_user
    /\ peer_contracts = 0
    /\ loop_user = "A"

CleanupScan ==
    /\ user_manager.users
    /\ ~user_manager.inactive_users
    /\ \E stale \in BOOLEAN :
            user_manager' = cleanup_scan(user_manager, user_data, stale)
    /\ ev' = CleanupEvent("scan")
    /\ UNCHANGED <<user_data, exch_contracts, peer>>

CleanupRemove ==
    /\ user_manager.inactive_users
    /\ \E backup_ok \in BOOLEAN :
            user_manager' = cleanup_remove(user_manager, backup_ok)
    /\ ev' = CleanupEvent("remove")
    /\ UNCHANGED <<user_data, exch_contracts, peer>>

NextCleanup ==
    \/ TradingPass
    \/ CleanupScan
    \/ CleanupRemove

SpecCleanup == InitCleanup /\ [][NextCleanup]_vars

(***************************************************************************)
(* The calculator on its own.  Every step is one call of a function of     *)
(* utils/calculations.py with arguments drawn from the sets below; ev is   *)
(* the name of the function, the arguments and what the call gave.  Money  *)
(* is in 1e-4 USDT and contracts in 1e-6; prices are whole numbers, which  *)
(* doubles hold exactly.                                                   *)
(***************************************************************************)
CalcBalances == {0 - 10000, 0, 2000, 1000000}

CalcMargins == {0 - 2000, 0, 2000, 2700, 1000000, 1000001}

CalcLeverages == {0 - 1, 0, 1, 25, 100, 101}

\* the terms of the sequence of a 100 USDT balance, and no margin
CalcLevelMargins == {0, 2000, 2700, 3645}

CalcPrices == {0 - 98, 0, 3, 98, 100}

\* entry and reference prices: negative, missing, and two round ones
CalcBasePrices == {0 - 1000, NoPrice, 1000, 1250, 10000}

\* current prices on both sides of 0.56% above and of 1.1% below the round
\* base prices, and on the thresholds themselves
CalcCurrentPrices ==
    {988, 989, 990, 1000, 1250, 1256, 1257, 1258,
     9889, 9890, 9891, 10000, 10055, 10056, 10057}

\* the weighted average entry of a position entered at one price
EntryOf(price) == IF price = NoPrice THEN NoEntry ELSE [num |-> price, den |-> 1]

InitCalculator ==
    /\ ev = [op |-> "init"]
    /\ user_data = initialize_new_user
    /\ exch_contracts = 0
    /\ user_manager = Unregistered
    /\ peer_data = initialize_new_user
    /\ peer_contracts = 0
    /\ loop_user = "A"

ValidateTradeParameters ==
    \E balance \in CalcBalances, margin_amount \in CalcMargins,
       leverage \in CalcLeverages, price \in CalcPrices :
        ev' = [op |-> "validate_trade_parameters", balance |-> balance,
               margin_amount |-> margin_amount, leverage |-> leverage,
               price |-> price,
               result |-> validate_trade_parameters(balance, margin_amount,
                                                    leverage, price)]

CalculatePositionSize ==
    \E margin_amount \in CalcLevelMargins, leverage \in CalcLeverages,
       price \in CalcPrices :
        ev' = [op |-> "calculate_position_size",
               margin_amount |-> margin_amount, leverage |-> leverage,
               price |-> price,
               result |-> calculate_position_size_call(margin_amount,
                                                       leverage, price)]

ShouldTakeProfit ==
    \E current_price \in CalcCurrentPrices, entry \in CalcBasePrices :
        ev' = [op |-> "should_take_profit", current_price |-> current_price,
               weighted_avg_entry |-> entry,
               result |-> should_take_profit(current_price, EntryOf(entry))]

ShouldAddMartingaleLevel ==
    \E current_price \in CalcCurrentPrices, reference_price \in CalcBasePrices :
        ev' = [op |-> "should_add_martingale_level",
               current_price |-> current_price,
               reference_price |-> reference_price,
               result |-> should_add_martingale_level(current_price,
                                                      reference_price)]

NextCalculator ==
    /\ \/ ValidateTradeParameters
       \/ CalculatePositionSize
       \/ ShouldTakeProfit
       \/ ShouldAddMartingaleLevel
    /\ UNCHANGED <<user_data, exch_contracts, user_manager, peer>>

SpecCalculator == InitCalculator /\ [][NextCalculator]_vars

(***************************************************************************)
(* The order gateway on its own.  Every step is one place_market_order     *)
(* call with a type of exchange, a side, an amount and an answer of the    *)
(* exchange drawn from the sets below, on an account holding 0.051020      *)
(* contracts; ev is the call and what it gave.                             *)
(***************************************************************************)
\* amounts in 1e-6 contracts: negative, 0, below, on and above the step of
\* bybit, and the size of a first level on and off a multiple of that step
GatewayAmounts == {0 - 150, 0, 1, 99, 100, 101, 51000, 51020, 51099}

GatewayContracts == 51020

InitGateway ==
    /\ ev = [op |-> "init"]
    /\ user_data = initialize_new_user
    /\ exch_contracts = GatewayContracts
    /\ user_manager = Unregistered
    /\ peer_data = initialize_new_user
    /\ peer_contracts = 0
    /\ loop_user = "A"

PlaceMarketOrder ==
    /\ \E exchange_type \in ExchangeTypes \cup {""}, side \in {"buy", "sell"},
          amount \in GatewayAmounts, reduce_only \in BOOLEAN,
          accepted \in BOOLEAN :
            ev' = [op |-> "place_market_order", exchange_type |-> exchange_type,
                   side |-> side, amount |-> amount,
                   reduce_only |-> reduce_only, accepted |-> accepted,
                   result |-> place_market_order(exchange_type, side, amount,
                                                 reduce_only, accepted, FALSE,
                                                 GatewayContracts)]
    /\ UNCHANGED <<user_data, exch_contracts, user_manager, peer>>

NextGateway == PlaceMarketOrder

SpecGateway == InitGateway /\ [][NextGateway]_vars

(***************************************************************************)
(* Passes of the trading loop in a market at take profit.  The user has    *)
(* connected an exchange with 100 USDT and started trading.  Beside the    *)
(* passes of TradingPass, with any answers of the gateway, there are the   *)
(* passes for an active cycle in which every gateway call succeeds and     *)
(* the price read is GoodPrice, above the take-profit threshold of every   *)
(* entry; the trading loop runs such a pass again and again, hence the     *)
(* weak fairness.  The exchange can close the position on its own          *)
(* (liquidation, or a close from outside the engine).                      *)
(***************************************************************************)
\* a price 2% above the highest entry
GoodPrice == 102

\* the balances a successful balance query answers
GoodBalances == Balances \ {0}

InitLive ==
    /\ \E exchange_type \in ExchangeTypes, balance \in GoodBalances :
            user_data = ConnectedUser(exchange_type, balance)
    /\ exch_contracts = 0
    /\ user_manager = Registered
    /\ ev = Event("init",
                  PassOutcome(Outcome(initialize_new_user, 0, TRUE, NoOrders),
                              "none", FALSE),
                  FALSE)
    /\ peer_data = initialize_new_user
    /\ peer_contracts = 0
    /\ loop_user = "A"

\* a pass for an active cycle: the balance query, the price reads, the
\* position query and the order all succeed
GoodPass ==
    /\ user_manager.authorized_users /\ user_manager.users
    /\ user_data.is_active
    /\ ~SkipCondition(user_data)
    /\ user_data.exchange
    /\ \E current_balance \in GoodBalances :
            LET r1 == update_balance_strategy(user_data, current_balance)
                o == IF check_take_profit(r1, GoodPrice)
                     THEN PassOutcome(
                            close_position_answered(r1, exch_contracts,
                                                    exch_contracts, GoodPrice, TRUE),
                            "close_position", TRUE)
                     ELSE PassOutcome(Outcome(r1, exch_contracts, TRUE, NoOrders),
                                      "none", TRUE)
            IN  Commit("process_user_trading", o, o.ok)

\* the exchange closes the position without an order of the engine
ExternalClose ==
    /\ exch_contracts > 0
    /\ exch_contracts' = 0
    /\ ev' = [Event("exchange",
                    PassOutcome(Outcome(user_data, 0, TRUE, NoOrders),
                                "liquidation", FALSE),
                    FALSE)
                EXCEPT !.unsaved = ev.unsaved]
    /\ UNCHANGED <<user_data, user_manager, peer>>

NextLive ==
    \/ TradingPass
    \/ GoodPass
    \/ ExternalClose

SpecLive == InitLive /\ [][NextLive]_vars /\ WF_vars(GoodPass)

(***************************************************************************)
(* The trading loop and the intake loop as the two threads they are        *)
(* (bot.py: run).  The user has connected an exchange with 100 USDT and    *)
(* started trading.  A pass of the trading loop decides what to do and     *)
(* then runs start_new_cycle, close_position or add_martingale_level one   *)
(* gateway call at a time: each step is a gateway call, which waits for    *)
(* the network, with the statements that follow it up to the next call.    *)
(* Between two steps the intake loop can run the emergency handler or the  *)
(* start-trading handler on the same record.  Here ev is the position of   *)
(* the trading loop in its pass (pc) and the local variables of the        *)
(* operation it is in; op is the handler that took the last step.  Beside  *)
(* the locals, leverage_set is what the set_leverage call of the operation *)
(* has answered, which start_new_cycle does not keep.                      *)
(***************************************************************************)
\* the balances the gateway answers here: those of Balances, and 50 USDT,
\* the free balance after half of the funds have left the account
RaceBalances == Balances \cup {500000}

NoLocals ==
    [current_price |-> NoPrice, step |-> 0, margin_amount |-> 0,
     position_size |-> 0, actual_position_size |-> 0, leverage_set |-> FALSE]

RaceEvent(op, pc, locals) == [op |-> op, pc |-> pc, locals |-> locals]

\* the pass has returned
Returned == RaceEvent("process_user_trading", "idle", NoLocals)

\* the pass goes on to the gateway call pc
GoesOn(pc, locals) == RaceEvent("process_user_trading", pc, locals)

InitRace ==
    /\ \E exchange_type \in ExchangeTypes :
            user_data = ConnectedUser(exchange_type, DEFAULT_BALANCE)
    /\ exch_contracts = 0
    /\ user_manager = Registered
    /\ ev = RaceEvent("init", "idle", NoLocals)
    /\ peer_data = initialize_new_user
    /\ peer_contracts = 0
    /\ loop_user = "A"

\* process_user_trading up to the call of an engine operation: the skips,
\* the balance refresh, and the reads of the price for the two checks
PassDecides ==
    /\ ev.pc = "idle"
    /\ user_data.is_active \/ user_data.total_trades < MaxTrades
    /\ ~SkipCondition(user_data)
    /\ user_data.exchange
    /\ \E current_balance \in RaceBalances, tp_price \in PriceReads,
          add_price \in PriceReads :
        LET r1 == update_balance_strategy(user_data, current_balance)
        IN  IF ~r1.is_active /\ ~r1.safe_stop_requested /\ ~r1.trade_in_progress
            THEN /\ user_data' = [r1 EXCEPT !.trade_in_progress = TRUE]
                 /\ ev' = GoesOn("start_set_leverage", NoLocals)
            ELSE IF r1.is_active /\ check_take_profit(r1, tp_price)
            THEN /\ user_data' = r1
                 /\ ev' = GoesOn("close_get_position_size", NoLocals)
            ELSE IF r1.is_active /\ should_add_martingale(r1, add_price)
            THEN /\ user_data' = r1
                 /\ ev' = GoesOn("add_get_price", NoLocals)
            ELSE /\ user_data' = r1
                 /\ ev' = Returned
    /\ UNCHANGED <<exch_contracts, user_manager, peer>>

\* start_new_cycle: set_leverage, whose answer is not looked at
StartSetLeverage ==
    /\ ev.pc = "start_set_leverage"
    /\ \E leverage_set \in BOOLEAN :
            ev' = GoesOn("start_get_price",
                         [NoLocals EXCEPT !.leverage_set = leverage_set])
    /\ UNCHANGED <<user_data, exch_contracts, user_manager, peer>>

\* start_new_cycle: get_price
StartGetPrice ==
    /\ ev.pc = "start_get_price"
    /\ \E current_price \in PriceReads :
        IF current_price = NoPrice
        THEN /\ user_data' = release_trade(user_data)
             /\ ev' = Returned
        ELSE /\ user_data' = user_data
             /\ ev' = GoesOn("start_get_balance",
                             [ev.locals EXCEPT !.current_price = current_price])
    /\ UNCHANGED <<exch_contracts, user_manager, peer>>

\* start_new_cycle: get_balance, the validation and the size of the order
StartGetBalance ==
    /\ ev.pc = "start_get_balance"
    /\ \E balance \in RaceBalances :
        LET margin_amount == user_data.martingale_sequence[1]
            current_price == ev.locals.current_price
        IN  IF \/ balance < MIN_BALANCE
               \/ ~validate_trade_parameters(balance, margin_amount,
                        user_data.leverage, current_price).is_valid
            THEN /\ user_data' = release_trade(user_data)
                 /\ ev' = Returned
            ELSE /\ user_data' = user_data
                 /\ ev' = GoesOn("start_place_market_order",
                            [ev.locals EXCEPT
                                !.margin_amount = margin_amount,
                                !.position_size =
                                    calculate_position_size(margin_amount,
                                        user_data.leverage, current_price)])
    /\ UNCHANGED <<exch_contracts, user_manager, peer>>

\* start_new_cycle: place_market_order and the update of the user state
StartPlaceMarketOrder ==
    /\ ev.pc = "start_place_market_order"
    /\ \E accepted \in BOOLEAN :
        LET l == ev.locals
            placed == place_market_order(user_data.exchange_type, "buy",
                            l.position_size, FALSE, accepted,
                            user_data.trade_in_progress, exch_contracts)
        IN  /\ exch_contracts' = placed.contracts
            /\ user_data' =
                IF placed.order
                THEN release_trade(record_trade(
                        [user_data EXCEPT
                            !.current_step = 0,
                            !.entry_price = l.current_price,
                            !.position_side = "buy",
                            !.is_active = TRUE,
                            !.position_levels =
                                first_level(l.current_price, l.margin_amount,
                                            l.position_size),
                            !.martingale_trigger_prices = <<>>],
                        "open_level_1", l.current_price, l.position_size))
                ELSE release_trade(user_data)
    /\ ev' = Returned
    /\ UNCHANGED <<user_manager, peer>>

\* add_martingale_level: get_price, the move to the next step and the size
\* of the order
AddGetPrice ==
    /\ ev.pc = "add_get_price"
    /\ \E current_price \in PriceReads :
        IF current_price = NoPrice
        THEN /\ user_data' = user_data
             /\ ev' = Returned
        ELSE LET r1 == [user_data EXCEPT !.current_step = @ + 1]
                 step == r1.current_step
                 margin_amount == level_margin(r1, step)
             IN  /\ user_data' = r1
                 /\ ev' = GoesOn("add_get_balance",
                            [NoLocals EXCEPT
                                !.current_price = current_price,
                                !.step = step,
                                !.margin_amount = margin_amount,
                                !.position_size =
                                    calculate_position_size(margin_amount,
                                        r1.leverage, current_price)])
    /\ UNCHANGED <<exch_contracts, user_manager, peer>>

\* add_martingale_level: get_balance
AddGetBalance ==
    /\ ev.pc = "add_get_balance"
    /\ \E balance \in RaceBalances :
        IF balance < ev.locals.margin_amount
        THEN /\ user_data' = revert_step(user_data)
             /\ ev' = Returned
        ELSE /\ user_data' = user_data
             /\ ev' = GoesOn("add_place_market_order", ev.locals)
    /\ UNCHANGED <<exch_contracts, user_manager, peer>>

\* add_martingale_level: place_market_order and the record of the level
AddPlaceMarketOrder ==
    /\ ev.pc = "add_place_market_order"
    /\ \E accepted \in BOOLEAN :
        LET l == ev.locals
            placed == place_market_order(user_data.exchange_type, "buy",
                            l.position_size, FALSE, accepted,
                            user_data.trade_in_progress, exch_contracts)
        IN  /\ exch_contracts' = placed.contracts
            /\ user_data' =
                IF placed.order
                THEN record_trade(
                        [user_data EXCEPT
                            !.martingale_trigger_prices =
                                Append(@, l.current_price),
                            !.position_levels =
                                Append(@, [price |-> l.current_price,
                                           margin |-> l.margin_amount,
                                           contracts |-> l.position_size,
                                           level |-> l.step + 1])],
                        "martingale", l.current_price, l.position_size)
                ELSE revert_step(user_data)
    /\ ev' = Returned
    /\ UNCHANGED <<user_manager, peer>>

\* close_position: get_position_size
CloseGetPositionSize ==
    /\ ev.pc = "close_get_position_size"
    /\ \E actual_position_size \in get_position_size(exch_contracts) :
        IF actual_position_size <= 0
        THEN ev' = Returned
        ELSE ev' = GoesOn("close_get_price",
                    [NoLocals EXCEPT
                        !.actual_position_size = actual_position_size])
    /\ UNCHANGED <<user_data, exch_contracts, user_manager, peer>>

\* close_position: get_price
CloseGetPrice ==
    /\ ev.pc = "close_get_price"
    /\ \E current_price \in PriceReads :
        IF current_price = NoPrice
        THEN ev' = Returned
        ELSE ev' = GoesOn("close_place_market_order",
                    [ev.locals EXCEPT !.current_price = current_price])
    /\ UNCHANGED <<user_data, exch_contracts, user_manager, peer>>

\* close_position: place_market_order, the closing record and the reset
ClosePlaceMarketOrder ==
    /\ ev.pc = "close_place_market_order"
    /\ \E accepted \in BOOLEAN :
        LET l == ev.locals
            placed == place_market_order(user_data.exchange_type, "sell",
                            l.actual_position_size, TRUE, accepted,
                            user_data.trade_in_progress, exch_contracts)
        IN  /\ exch_contracts' = placed.contracts
            /\ user_data' =
                IF placed.order
                THEN reset_cycle(
                        [record_trade(user_data, "close_all_tp",
                                      l.current_price, l.actual_position_size)
                         EXCEPT !.cycle_count = @ + 1])
                ELSE user_data
    /\ ev' = Returned
    /\ UNCHANGED <<user_manager, peer>>

\* the intake loop runs the emergency handler between two steps of the pass
RaceEmergency ==
    /\ \E o \in _handle_emergency(user_data, exch_contracts) :
        /\ user_data' = o.ud
        /\ exch_contracts' = o.contracts
    /\ ev' = [ev EXCEPT !.op = "_handle_emergency"]
    /\ UNCHANGED <<user_manager, peer>>

\* the intake loop runs the start-trading handler between two steps
RaceStartTrading ==
    /\ \E o \in _handle_start_trading(user_data, exch_contracts) :
        /\ user_data' = o.ud
        /\ exch_contracts' = o.contracts
    /\ ev' = [ev EXCEPT !.op = "_handle_start_trading"]
    /\ UNCHANGED <<user_manager, peer>>

NextRace ==
    \/ PassDecides
    \/ StartSetLeverage
    \/ StartGetPrice
    \/ StartGetBalance
    \/ StartPlaceMarketOrder
    \/ AddGetPrice
    \/ AddGetBalance
    \/ AddPlaceMarketOrder
    \/ CloseGetPositionSize
    \/ CloseGetPrice
    \/ ClosePlaceMarketOrder
    \/ RaceEmergency
    \/ RaceStartTrading

SpecRace == InitRace /\ [][NextRace]_vars

(***************************************************************************)
(* Properties.                                                             *)
(***************************************************************************)
\* the position-state fields of a record
PositionState(r) ==
    <<r.is_active, r.current_step, r.entry_price, r.position_levels,
      r.martingale_trigger_prices>>

\* the derived strategy fields of a record
StrategyState(r) == <<r.base_amount, r.martingale_sequence>>

\* the last handler submitted the buy order of level 0
OpenedLevel0(e) == e.call = "start_new_cycle" /\ e.orders # NoOrders

\* C1: whatever the gateway answered, every state in which is_active is true
\* has current_step < len(martingale_sequence) and
\* len(position_levels) = current_step + 1.
C1_ActiveStepWithinSequence ==
    user_data.is_active =>
        /\ user_data.current_step < Len(user_data.martingale_sequence)
        /\ Len(user_data.position_levels) = user_data.current_step + 1

\* an active cycle whose last level was added by a successful
\* add_martingale_level, after which the step is the last index
C1_Witness ==
    /\ user_data.is_active
    /\ ev.call = "add_martingale_level"
    /\ ev.ok
    /\ user_data.current_step = 2

\* C2: whenever the exchange holds contracts bought by the engine's orders the
\* record is active; so after a successful close or emergency close, which
\* clear is_active, the exchange holds none.
C2_ContractsImplyActive ==
    exch_contracts > 0 => user_data.is_active

\* C3: a processing pass for a user who requested safe stop while a cycle is
\* active still evaluates take-profit for that cycle (so that the cycle can be
\* closed once the price reaches the threshold).
C3_SafeStopPassEvaluatesTakeProfit ==
    [][ ( /\ ev'.op = "process_user_trading"
          /\ user_data.setup_complete
          /\ user_data.exchange
          /\ user_data.safe_stop_requested
          /\ user_data.is_active )
        => ev'.tp_checked ]_vars

\* C4: while safe_stop_requested is set no handler submits a level-0 buy
\* order, and the flag stays set until a start-trading request clears it.
C4_NoOpenUnderSafeStop ==
    [][ user_data.safe_stop_requested =>
            /\ ~OpenedLevel0(ev')
            /\ (~user_data'.safe_stop_requested => ev'.op = "_handle_start_trading") ]_vars

\* a processing pass has run for an idle user with safe stop requested
C4_Witness ==
    /\ user_data.safe_stop_requested
    /\ user_data.setup_complete
    /\ ~user_data.is_active
    /\ ev.op = "process_user_trading"

\* C5: after an emergency stop request has been handled trading_enabled is
\* false, whatever the position and whatever the exchange answered.
C5_EmergencyDisablesTrading ==
    ev.op = "_handle_emergency" => ~user_data.trading_enabled

\* C6: an emergency_close_position that finds no open position on the exchange
\* (it returns success without placing an order) leaves trading_enabled false.
C6_VacuousEmergencyCloseDisablesTrading ==
    (ev.call = "emergency_close_position" /\ ev.ok /\ ev.orders = NoOrders)
        => ~user_data.trading_enabled

\* C7: every order request is made while the user's trade_in_progress is true.
C7_OrdersUnderTradeInProgress ==
    \A i \in DOMAIN ev.orders : ev.orders[i].in_progress

\* C8: the position-state fields and the derived strategy fields are written
\* by the trading loop only.
C8_OnlyTradingLoopWrites ==
    [][ ( \/ PositionState(user_data') # PositionState(user_data)
          \/ StrategyState(user_data') # StrategyState(user_data) )
        => ThreadOf(ev'.op) = "trading" ]_vars

\* C9: a start_new_cycle that returns failure leaves trade_in_progress false
\* and is_active, current_step, entry_price, position_levels,
\* martingale_trigger_prices, total_trades, cycle_count and closed_trades as
\* they were.
C9_FailedStartChangesNothing ==
    [][ (ev'.call = "start_new_cycle" /\ ~ev'.ok) =>
            /\ ~user_data'.trade_in_progress
            /\ PositionState(user_data') = PositionState(user_data)
            /\ user_data'.total_trades = user_data.total_trades
            /\ user_data'.cycle_count = user_data.cycle_count
            /\ user_data'.closed_trades = user_data.closed_trades ]_vars

\* a start_new_cycle whose buy order the exchange rejected
C9_Witness ==
    /\ ev.call = "start_new_cycle"
    /\ ~ev.ok
    /\ ev.orders # NoOrders
    /\ user_data.total_trades > 0

\* C10: an add_martingale_level that returns failure leaves current_step,
\* position_levels, martingale_trigger_prices and total_trades as they were.
C10_FailedAddChangesNothing ==
    [][ (ev'.call = "add_martingale_level" /\ ~ev'.ok) =>
            /\ user_data'.current_step = user_data.current_step
            /\ user_data'.position_levels = user_data.position_levels
            /\ user_data'.martingale_trigger_prices = user_data.martingale_trigger_prices
            /\ user_data'.total_trades = user_data.total_trades ]_vars

\* an add_martingale_level on the second level whose buy order the exchange
\* rejected
C10_Witness ==
    /\ ev.call = "add_martingale_level"
    /\ ~ev.ok
    /\ ev.orders # NoOrders
    /\ user_data.current_step = 1

\* the record r with the fields a balance refresh may rewrite taken from q
RefreshedFrom(r, q) ==
    [r EXCEPT !.current_balance = q.current_balance,
              !.base_amount = q.base_amount,
              !.martingale_sequence = q.martingale_sequence]

\* C11: a close_position that returns success leaves is_active false,
\* entry_price unset, current_step 0, position_levels and
\* martingale_trigger_prices empty, cycle_count increased by exactly 1 and
\* exactly one closing record appended to closed_trades; one that returns
\* failure changes none of these fields.
C11_CloseResetsOrKeeps ==
    [][ ev'.call = "close_position" =>
            IF ev'.ok
            THEN /\ PositionState(user_data') = <<FALSE, 0, NoPrice, <<>>, <<>>>>
                 /\ user_data'.cycle_count = user_data.cycle_count + 1
                 /\ Len(user_data'.closed_trades) = Len(user_data.closed_trades) + 1
                 /\ SubSeq(user_data'.closed_trades, 1, Len(user_data.closed_trades))
                        = user_data.closed_trades
                 /\ user_data'.closed_trades[Len(user_data'.closed_trades)].type
                        = "close_all_tp"
            ELSE /\ PositionState(user_data') = PositionState(user_data)
                 /\ user_data'.cycle_count = user_data.cycle_count
                 /\ user_data'.closed_trades = user_data.closed_trades ]_vars

\* the second take-profit close of a user has returned success
C11_Witness ==
    /\ ev.call = "close_position"
    /\ ev.ok
    /\ user_data.cycle_count = 2
    /\ Len(user_data.closed_trades) = 2

\* C12: every order close_position submits is a reduce-only sell whose
\* requested amount is the size the exchange holds (the size it reported in
\* that call), whatever the sum of the locally tracked levels.
C12_CloseSellsReportedSize ==
    [][ ev'.call = "close_position" =>
            \A i \in DOMAIN ev'.orders :
                /\ ev'.orders[i].side = "sell"
                /\ ev'.orders[i].reduce_only
                /\ ev'.orders[i].requested = exch_contracts ]_vars

\* a close whose sell order was rejected, for a position whose locally tracked
\* sum differs from the size on the exchange
C12_Witness ==
    /\ ev.call = "close_position"
    /\ ev.orders # NoOrders
    /\ ~ev.ok
    /\ SumContracts(user_data.position_levels) # exch_contracts
    /\ ev.orders[1].requested = exch_contracts

\* C13: a close_position that submits no order (the exchange reported no open
\* position, or no price) returns failure and leaves the record as it was
\* when called, that is as the balance refresh of the pass left it.
C13_NoPositionCloseChangesNothing ==
    [][ (ev'.call = "close_position" /\ ev'.orders = NoOrders) =>
            /\ ~ev'.ok
            /\ user_data' = RefreshedFrom(user_data, user_data')
            /\ exch_contracts' = exch_contracts ]_vars

\* a close that failed without an order while the levels record a positive
\* total
C13_Witness ==
    /\ ev.call = "close_position"
    /\ ev.orders = NoOrders
    /\ ~ev.ok
    /\ user_data.is_active
    /\ SumContracts(user_data.position_levels) > 0

\* C14: a balance refresh whose query failed (the gateway answered 0) leaves
\* current_balance, base_amount and martingale_sequence as they were.
C14_FailedBalanceQueryKeepsStrategy ==
    [][ (ev'.op = "update_balance_strategy" /\ ev'.balance = 0) =>
            /\ user_data'.current_balance = user_data.current_balance
            /\ StrategyState(user_data') = StrategyState(user_data) ]_vars

\* a sequence of positive margins, each greater than the one before
StrictlyIncreasing(seq) == \A i \in 1..(Len(seq) - 1) : seq[i] < seq[i + 1]

\* C15: in every state martingale_sequence has exactly MARTINGALE_LEVELS
\* entries and is strictly increasing, for every balance the refresh observed.
C15_SequenceStrictlyIncreasing ==
    /\ Len(user_data.martingale_sequence) = MARTINGALE_LEVELS
    /\ StrictlyIncreasing(user_data.martingale_sequence)

\* the last refresh rewrote the record from the balance it read
Recomputed ==
    user_data' = update_user_balance_strategy(user_data, ev'.balance)

\* C16 as stated: the refresh recomputes exactly when the balance read differs
\* from the last recorded balance by at least 1% of the last recorded balance,
\* and leaves the record untouched otherwise.
C16_RecomputeAtLeastOnePercent ==
    [][ ev'.op = "update_balance_strategy" =>
            IF Abs(ev'.balance - user_data.current_balance) * 100
                    >= user_data.current_balance
            THEN Recomputed
            ELSE user_data' = user_data ]_vars

\* C16 as the code has it: the refresh recomputes exactly when the balance
\* read differs from the last recorded balance by more than 1% of the last
\* recorded balance, a last balance below 1 USDT counting as 1 USDT, and
\* leaves the record untouched otherwise.
C16_RecomputeAboveOnePercent ==
    [][ ev'.op = "update_balance_strategy" =>
            IF Abs(ev'.balance - user_data.current_balance) * 100
                    > Max(user_data.current_balance, 10000)
            THEN Recomputed
            ELSE user_data' = user_data ]_vars

\* a refresh read 101 USDT, exactly 1% above the recorded 100 USDT, and left
\* the record at 100 USDT
C16_Witness ==
    /\ ev.op = "update_balance_strategy"
    /\ ev.balance = 1010000
    /\ user_data.current_balance = 1000000

\* C17: a processing pass for a user whose setup is incomplete, or whose
\* trading_enabled is false, or who has safe_stop_requested set while not
\* active, returns before any gateway call, places no order and leaves the
\* record and the exchange position unchanged.
C17_SkippedPassChangesNothing ==
    [][ (ev'.op = "process_user_trading" /\ SkipCondition(user_data)) =>
            /\ ev'.call = "skip"
            /\ ev'.ok
            /\ ev'.orders = NoOrders
            /\ user_data' = user_data
            /\ exch_contracts' = exch_contracts ]_vars

\* a pass skipped a connected user who has traded and whose trading is
\* disabled while a position is open
C17_Witness ==
    /\ ev.op = "process_user_trading"
    /\ ev.call = "skip"
    /\ user_data.setup_complete
    /\ user_data.exchange
    /\ ~user_data.trading_enabled
    /\ user_data.is_active
    /\ exch_contracts > 0

\* C19: authorize_user with the correct code for a user who is already
\* authorized returns success and leaves the user's record, the authorized
\* set, the registry and the exchange position unchanged, however often it
\* is repeated.
C19_ReauthorizeChangesNothing ==
    [][ (/\ ev'.op = "_handle_authorization"
         /\ ev'.call = "authorize_user"
         /\ is_authorized(user_manager)) =>
            /\ ev'.ok
            /\ ~ev'.saved
            /\ user_data' = user_data
            /\ user_manager' = user_manager
            /\ exch_contracts' = exch_contracts ]_vars

\* a user in a cycle, with an open position of two levels, has just been
\* authorized again
C19_Witness ==
    /\ ev.op = "_handle_authorization"
    /\ ev.call = "authorize_user"
    /\ ev.ok
    /\ user_data.authorized
    /\ user_data.is_active
    /\ user_data.cycle_count = 1
    /\ user_data.total_trades > 1
    /\ Len(user_data.position_levels) = 2
    /\ exch_contracts > 0

\* C20: within one iteration of the trading loop, a pass for user A that
\* fails or raises changes no field of user B's record and nothing of B's
\* position, and the loop goes on to B; a failed pass for B changes nothing
\* of A's.
C20_FailedPassLeavesPeer ==
    [][ /\ (ev'.user = "A" /\ ~ev'.ok) =>
                /\ peer_data' = peer_data
                /\ peer_contracts' = peer_contracts
                /\ loop_user' = "B"
        /\ (ev'.user = "B" /\ ~ev'.ok) =>
                /\ user_data' = user_data
                /\ exch_contracts' = exch_contracts ]_vars

\* B's pass opened a position in the iteration in which A's pass failed
C20_Witness ==
    /\ ev.user = "B"
    /\ ev.prev_failed
    /\ ev.ok
    /\ peer_data.is_active
    /\ peer_contracts > 0
    /\ ~user_data.is_active

\* C18: cleanup_inactive_users never removes a user whose is_active is true
\* at the moment of removal, also when a trading pass for the user runs
\* between the scan and the removal, and every removed user's record is
\* backed up before it is removed.
C18_RemovedIdleAndBackedUp ==
    [][ (user_manager.users /\ ~user_manager'.users) =>
            /\ ~user_data.is_active
            /\ user_manager'.backed_up ]_vars

\* C21: every processing pass that changes the user's record, also one that
\* recomputes base_amount and martingale_sequence and then fails to open or
\* extend a position, is followed by an attempt to save the record before
\* the next pass for the user starts: no pass starts while a change made by
\* an earlier pass is unsaved.
C21_ChangeSavedBeforeNextPass ==
    [][ ev'.op = "process_user_trading" => ~ev.unsaved ]_vars

\* the reason of the first condition violated, in the order balance, margin,
\* margin against balance, leverage, price; "" when none is
FirstViolated(balance, margin_amount, leverage, price) ==
    LET reasons ==
            << <<balance <= 0, "Invalid balance">>,
               <<margin_amount <= 0, "Invalid margin amount">>,
               <<margin_amount > balance, "Insufficient balance for margin">>,
               <<leverage < 1 \/ leverage > 100, "Invalid leverage">>,
               <<price <= 0, "Invalid price">> >>
        violated == {i \in 1..5 : reasons[i][1]}
    IN  IF violated = {} THEN ""
        ELSE reasons[CHOOSE i \in violated : \A j \in violated : i <= j][2]

\* C22: validate_trade_parameters rejects exactly when balance <= 0, or
\* margin <= 0, or margin > balance, or leverage is outside [1, 100], or
\* price <= 0; every rejection returns a non-empty reason that names the
\* first violated condition in that order; every other call is accepted.
C22_ValidationRejectsWithFirstReason ==
    ev.op = "validate_trade_parameters" =>
        LET reason == FirstViolated(ev.balance, ev.margin_amount,
                                    ev.leverage, ev.price)
        IN  /\ ev.result.is_valid = (reason = "")
            /\ ev.result.error_msg = reason
            /\ ~ev.result.is_valid => ev.result.error_msg # ""

\* a call with a margin above the balance, a leverage above 100 and price 0
\* was rejected for the margin
C22_Witness ==
    /\ ev.op = "validate_trade_parameters"
    /\ ev.balance > 0
    /\ ev.margin_amount > ev.balance
    /\ ev.leverage > 100
    /\ ev.price = 0
    /\ ev.result = [is_valid |-> FALSE,
                    error_msg |-> "Insufficient balance for margin"]

\* C23: position_size(margin, leverage, price) returns 0 and does not raise
\* for every price <= 0, and returns round(margin * leverage / price, 6) for
\* every price > 0.
C23_PositionSizeTotal ==
    ev.op = "calculate_position_size" =>
        /\ ~ev.result.raised
        /\ ev.price <= 0 => ev.result.value = 0
        /\ ev.price > 0 =>
                ev.result.value =
                    RoundHalfEven(ev.margin_amount * ev.leverage * 100, ev.price)

\* C24: should_take_profit(current, avg_entry, threshold) is true exactly
\* when avg_entry > 0 and (current - avg_entry) / avg_entry * 100 >=
\* threshold: a profit equal to the threshold triggers, any smaller profit
\* does not.
C24_TakeProfitAtThreshold ==
    ev.op = "should_take_profit" =>
        (ev.result <=>
            /\ ev.weighted_avg_entry > 0
            /\ (ev.current_price - ev.weighted_avg_entry) * TAKE_PROFIT_DEN
                    >= TAKE_PROFIT_NUM * ev.weighted_avg_entry)

\* C25: should_add_level(current, reference, drop_trigger) is true exactly
\* when reference > 0 and (reference - current) / reference * 100 >=
\* drop_trigger, a drop equal to the trigger included; it is false for every
\* non-positive or missing reference.
C25_AddLevelAtTrigger ==
    ev.op = "should_add_martingale_level" =>
        (ev.result <=>
            /\ ev.reference_price > 0
            /\ (ev.reference_price - ev.current_price) * DROP_TRIGGER_DEN
                    >= DROP_TRIGGER_NUM * ev.reference_price)

\* the precision of an exchange, in 1e-6 contracts
AmountStep(exchange_type) == IF exchange_type = "bybit" THEN 100 ELSE 1

\* C26: place_market_order rounds the requested amount down to the
\* precision of the exchange before it submits, never submits more than was
\* requested, and when the rounded amount is not positive it submits nothing
\* and returns no order.
C26_OrderAmountRoundedDown ==
    ev.op = "place_market_order" =>
        LET step == AmountStep(ev.exchange_type)
            orders == ev.result.orders
        IN  /\ \A i \in DOMAIN orders :
                    /\ orders[i].amount > 0
                    /\ orders[i].amount <= ev.amount
                    /\ ev.amount - orders[i].amount < step
                    /\ orders[i].amount % step = 0
            /\ ev.amount < step => (orders = NoOrders /\ ~ev.result.order)
            /\ ev.result.order => Len(orders) = 1

\* an order for 0.051099 contracts went to bybit as 0.0510
C26_Witness ==
    /\ ev.op = "place_market_order"
    /\ ev.exchange_type = "bybit"
    /\ ev.amount = 51099
    /\ ev.result.order
    /\ Len(ev.result.orders) = 1
    /\ ev.result.orders[1].amount = 51000

\* C27: with passes scheduled fairly, an active cycle with trading enabled,
\* in a market that stays at or above the take-profit threshold and with
\* every gateway call succeeding, eventually reaches is_active = FALSE, also
\* when the exchange reports no open contracts for the symbol.
C27_ActiveCycleEventuallyCloses ==
    user_data.is_active ~> ~user_data.is_active

\* C28: in every state reached after an engine operation has returned, a
\* record with is_active false has no position levels and no trigger
\* prices, current_step 0 and no entry price; a record with is_active true
\* has the price of its first level as entry price and as many trigger
\* prices as current_step.
C28_CycleFieldsMatchActivity ==
    /\ ~user_data.is_active =>
            /\ user_data.position_levels = <<>>
            /\ user_data.martingale_trigger_prices = <<>>
            /\ user_data.current_step = 0
            /\ user_data.entry_price = NoPrice
    /\ user_data.is_active =>
            /\ user_data.position_levels # <<>>
            /\ user_data.entry_price = user_data.position_levels[1].price
            /\ Len(user_data.martingale_trigger_prices) = user_data.current_step

\* an emergency close of a position of two levels has returned: the record
\* is idle with the cycle fields at their defaults
C28_Witness ==
    /\ ev.call = "emergency_close_position"
    /\ ev.ok
    /\ ev.orders # NoOrders
    /\ ~user_data.is_active
    /\ user_data.total_trades = 2
    /\ user_data.cycle_count = 0

\* C29: a start_new_cycle that returns success leaves is_active true,
\* current_step 0, the price read as entry price, exactly one level whose
\* margin is the first term of martingale_sequence and whose contracts are
\* position_size(that term, leverage, price), which is the amount ordered,
\* no trigger prices, total_trades one higher, cycle_count as it was and
\* trade_in_progress false.
C29_StartOpensFirstLevel ==
    [][ (ev'.call = "start_new_cycle" /\ ev'.ok) =>
            LET r == user_data'
                levels == r.position_levels
            IN  /\ r.is_active
                /\ r.current_step = 0
                /\ r.entry_price \in Prices
                /\ Len(levels) = 1
                /\ levels[1].price = r.entry_price
                /\ levels[1].margin = r.martingale_sequence[1]
                /\ levels[1].contracts =
                        calculate_position_size(r.martingale_sequence[1],
                                                r.leverage, r.entry_price)
                /\ Len(ev'.orders) = 1
                /\ ev'.orders[1].requested = levels[1].contracts
                /\ r.martingale_trigger_prices = <<>>
                /\ r.total_trades = user_data.total_trades + 1
                /\ r.cycle_count = user_data.cycle_count
                /\ ~r.trade_in_progress ]_vars

\* the second cycle of a user has just been opened
C29_Witness ==
    /\ ev.call = "start_new_cycle"
    /\ ev.ok
    /\ user_data.is_active
    /\ user_data.cycle_count = 1
    /\ user_data.total_trades = 2

\* C30: an add_martingale_level that returns success increases current_step
\* by exactly 1, appends exactly one level, whose margin is the term of
\* martingale_sequence at the new step, appends exactly one price to
\* martingale_trigger_prices, increases total_trades by exactly 1 and leaves
\* the earlier levels, entry_price and cycle_count unchanged.
C30_AddAppendsOneLevel ==
    [][ (ev'.call = "add_martingale_level" /\ ev'.ok) =>
            LET r == user_data'
                n == Len(user_data.position_levels)
            IN  /\ r.current_step = user_data.current_step + 1
                /\ Len(r.position_levels) = n + 1
                /\ SubSeq(r.position_levels, 1, n) = user_data.position_levels
                /\ r.position_levels[n + 1].margin =
                        r.martingale_sequence[r.current_step + 1]
                /\ r.position_levels[n + 1].price \in Prices
                /\ r.martingale_trigger_prices =
                        Append(user_data.martingale_trigger_prices,
                               r.position_levels[n + 1].price)
                /\ r.total_trades = user_data.total_trades + 1
                /\ r.entry_price = user_data.entry_price
                /\ r.cycle_count = user_data.cycle_count ]_vars

\* a second level has just been added to a position on bybit
C30_Witness ==
    /\ ev.call = "add_martingale_level"
    /\ ev.ok
    /\ user_data.exchange_type = "bybit"
    /\ user_data.current_step = 1
    /\ Len(user_data.position_levels) = 2
    /\ Len(user_data.martingale_trigger_prices) = 1

\* the reference the claim names: the entry price at step 0, the last
\* trigger price after it
LastTriggerOrEntry(r) ==
    IF r.current_step = 0 THEN r.entry_price
    ELSE r.martingale_trigger_prices[Len(r.martingale_trigger_prices)]

\* the buy orders among the requests of a handler
BuyOrders(orders) == SelectSeq(orders, LAMBDA q : q.side = "buy")

C32_RecomputeKeepsPosition ==
    \A current_balance \in Balances :
        LET r == update_balance_strategy(user_data, current_balance)
        IN  /\ [r EXCEPT !.current_balance = user_data.current_balance,
                         !.base_amount = user_data.base_amount,
                         !.martingale_sequence = user_data.martingale_sequence]
                    = user_data
            /\ PositionState(r) = PositionState(user_data)
            /\ Len(r.martingale_sequence) >= r.current_step + 1

\* the strategy has been recomputed, from a balance query that gave 0,
\* during a cycle of two levels
C32_Witness ==
    /\ user_data.is_active
    /\ user_data.current_step = 1
    /\ user_data.current_balance = 0
    /\ user_data.martingale_sequence[1] # user_data.position_levels[1].margin

\* the trading loop is inside add_martingale_level, start_new_cycle or
\* close_position
InsideOperation == ev.pc # "idle"

\* C33: however the emergency handler of the intake thread interleaves with
\* a pass that is inside add_martingale_level, start_new_cycle or
\* close_position, once both have returned current_step >= 0, and a record
\* that is not active has no levels and current_step 0.
C33_RaceKeepsRecordConsistent ==
    ~InsideOperation =>
        /\ user_data.current_step >= 0
        /\ ~user_data.is_active =>
                /\ user_data.position_levels = <<>>
                /\ user_data.current_step = 0

\* the sides of the orders a handler handed to the gateway
OrderSides(orders) == [i \in 1..Len(orders) |-> orders[i].side]

\* C34: a processing pass hands at most one order to the gateway: the buy
\* of level 0 in a pass that starts a cycle, the sell in a pass that found
\* take profit reached, the buy of one more level in a pass that adds one;
\* a pass that found take profit reached submits no buy, also when its
\* close has failed.
C34_OneOrderPerPass ==
    ev.op = "process_user_trading" =>
        /\ Len(ev.orders) <= 1
        /\ ev.call \in {"start_new_cycle", "add_martingale_level"} =>
                OrderSides(ev.orders) \in {<<>>, <<"buy">>}
        /\ ev.call = "close_position" =>
                OrderSides(ev.orders) \in {<<>>, <<"sell">>}
        /\ ev.call \in {"skip", "none"} => ev.orders = NoOrders

\* a pass found take profit reached for a cycle of one level, its sell order
\* was refused, and it returned failure
C34_Witness ==
    /\ ev.op = "process_user_trading"
    /\ ev.call = "close_position"
    /\ ~ev.ok
    /\ OrderSides(ev.orders) = <<"sell">>
    /\ user_data.is_active
    /\ user_data.current_step = 0

\* the last handler was a take-profit close that returned success
TakeProfitClosed(e) == e.call = "close_position" /\ e.ok

\* C35: from a freshly initialised record on, cycle_count is the number of
\* records in closed_trades in every state, and both grow by one with every
\* take-profit close that returns success and change with nothing else, an
\* emergency close included.
C35_CycleCountIsClosedTrades ==
    [][ /\ user_data.cycle_count = Len(user_data.closed_trades)
        /\ user_data'.cycle_count = Len(user_data'.closed_trades)
        /\ user_data'.cycle_count =
                user_data.cycle_count + (IF TakeProfitClosed(ev') THEN 1 ELSE 0)
        /\ Len(user_data'.closed_trades) =
                Len(user_data.closed_trades)
                    + (IF TakeProfitClosed(ev') THEN 1 ELSE 0) ]_vars

\* an emergency close has sold the position of the cycle that followed a
\* completed one
C35_Witness ==
    /\ ev.call = "emergency_close_position"
    /\ ev.ok
    /\ ev.orders # NoOrders
    /\ ~user_data.is_active
    /\ user_data.cycle_count = 1
    /\ Len(user_data.closed_trades) = 1

\* the step is the last one of a close_position that completes the cycle
CompletesCycle ==
    /\ ev.pc = "close_place_market_order"
    /\ user_data'.cycle_count = user_data.cycle_count + 1

\* C36: whenever a take-profit close completes a cycle, the profit
\* percentage close_position computes from the price it has read itself and
\* the weighted average entry of the levels is at least the take-profit
\* threshold, whatever the price did after the take-profit check of the pass.
C36_ClosingProfitReachesThreshold ==
    [][ CompletesCycle =>
            should_take_profit(
                ev.locals.current_price,
                calculate_weighted_average_entry(user_data.position_levels))
      ]_vars

\* the price lies at least the drop trigger below the reference
DroppedByTrigger(price, reference) ==
    (reference - price) * DROP_TRIGGER_DEN >= DROP_TRIGGER_NUM * reference

\* C37: every price in martingale_trigger_prices lies at least the drop
\* trigger below its reference, the entry price for the first and the
\* trigger price before it for the others (so the trigger prices decrease
\* and stay below the entry price), whatever the price did between the
\* check of a pass and its order.
C37_TriggerPricesDrop ==
    LET triggers == user_data.martingale_trigger_prices
    IN  \A i \in 1..Len(triggers) :
            DroppedByTrigger(triggers[i],
                             IF i = 1 THEN user_data.entry_price
                                      ELSE triggers[i - 1])

\* the last handler has bought a level and recorded it
BoughtLevel(e) ==
    /\ e.call \in {"start_new_cycle", "add_martingale_level"}
    /\ e.ok

\* C38: on both exchanges the contracts recorded for a level are the
\* amount of the buy order that was handed to the exchange for it.
C38_RecordedContractsAreOrdered ==
    BoughtLevel(ev) =>
        LET levels == user_data.position_levels
        IN  /\ Len(ev.orders) = 1
            /\ levels[Len(levels)].contracts = ev.orders[1].amount

\* C39: start_new_cycle comes to its buy order only when the set_leverage
\* call it made before has succeeded; when setting the leverage has failed
\* no order is submitted and no cycle is opened.
C39_OrderAfterLeverageSet ==
    [][ ev.pc = "start_place_market_order" /\ ev'.pc = "idle" =>
            \/ ev.locals.leverage_set
            \/ /\ exch_contracts' = exch_contracts
               /\ ~user_data'.is_active ]_vars

\* C40: the margin recorded for a level is greater than the margin recorded
\* for the level before it, also when the strategy was recomputed from a
\* new balance between the two.
C40_LevelMarginsIncrease ==
    LET levels == user_data.position_levels
    IN  \A i \in 2..Len(levels) : levels[i].margin > levels[i - 1].margin

=============================================================================
